---------------------------- MODULE Spec2Model ----------------------------
(***************************************************************************)
(* Model of magic_cube (src/magic_cube/src/main.rs): the rule-matrix text  *)
(* codec (str_to_fractal_def, build_fractal_def_str), the recursive        *)
(* expander (spawn_fractal_recursive, spawn_cube) and the two Bevy systems *)
(* (setup, ui_fractal_depth) that rebuild the scene.                       *)
(*                                                                         *)
(* Text is a sequence of one-character strings.  f32 quantities (scale,    *)
(* the coordinates of a position) are exact rationals [num, den] in lowest *)
(* terms; f32 rounding is not modelled.  A u32 is a natural number; the    *)
(* u32 range check of parse::<u32> is made on the decimal digits, so that  *)
(* no intermediate value leaves TLC's integer range.                       *)
(***************************************************************************)
EXTENDS Integers, Sequences, FiniteSets

(***************************************************************************)
(* Text: characters, split, trim, join, u32 <-> decimal                    *)
(***************************************************************************)

\* The separators, main.rs:174-175.
FRACTAL_DEF_ELEMNET_SEPARATOR == ","
FRACTAL_DEF_ROW_SEPARATOR == "|"

Digits == <<"0", "1", "2", "3", "4", "5", "6", "7", "8", "9">>

IsDigit(c) == \E d \in 1..10 : Digits[d] = c

DigitVal(c) == (CHOOSE d \in 1..10 : Digits[d] = c) - 1

\* char::is_whitespace, restricted to the whitespace of the modelled alphabet.
IsWhitespace(c) == c = " "

\* u32::MAX = 4294967295, held as u32::MAX / 10 and u32::MAX % 10: the
\* overflow test of checked_mul(10) followed by checked_add(digit).
U32MaxDiv10 == 429496729
U32MaxMod10 == 5

\* str::split(sep): the maximal pieces between occurrences of sep, empty
\* pieces included; a text without sep is one piece, the empty text too.
RECURSIVE SplitFrom(_, _, _, _)
SplitFrom(s, sep, k, cur) ==
    IF k > Len(s) THEN <<cur>>
    ELSE IF s[k] = sep THEN <<cur>> \o SplitFrom(s, sep, k + 1, <<>>)
    ELSE SplitFrom(s, sep, k + 1, Append(cur, s[k]))

Split(s, sep) == SplitFrom(s, sep, 1, <<>>)

\* str::trim(): drops the leading and the trailing whitespace.
RECURSIVE TrimStart(_)
TrimStart(s) ==
    IF s # <<>> /\ IsWhitespace(s[1]) THEN TrimStart(Tail(s)) ELSE s

RECURSIVE TrimEnd(_)
TrimEnd(s) ==
    IF s # <<>> /\ IsWhitespace(s[Len(s)])
    THEN TrimEnd(SubSeq(s, 1, Len(s) - 1)) ELSE s

Trim(s) == TrimEnd(TrimStart(s))

\* The digit loop of u32::from_str: acc * 10 + digit with overflow checks;
\* a character that is no digit, or an overflow, is an Err.
RECURSIVE ParseDigits(_, _, _)
ParseDigits(s, k, acc) ==
    IF k > Len(s) THEN [ok |-> TRUE, num |-> acc]
    ELSE IF ~IsDigit(s[k]) THEN [ok |-> FALSE, num |-> 0]
    ELSE IF acc > U32MaxDiv10
              \/ (acc = U32MaxDiv10 /\ DigitVal(s[k]) > U32MaxMod10)
         THEN [ok |-> FALSE, num |-> 0]
    ELSE ParseDigits(s, k + 1, acc * 10 + DigitVal(s[k]))

\* str::parse::<u32>(): Err on the empty text and on a lone sign; one
\* leading "+" is accepted, a "-" is not (the type is unsigned).
ParseU32(s) ==
    IF s = <<>> THEN [ok |-> FALSE, num |-> 0]
    ELSE IF Len(s) = 1 /\ s[1] \in {"+", "-"} THEN [ok |-> FALSE, num |-> 0]
    ELSE IF s[1] = "+" THEN ParseDigits(s, 2, 0)
    ELSE ParseDigits(s, 1, 0)

\* u32::to_string(): the decimal digits, no sign, no leading zero.
RECURSIVE to_string(_)
to_string(y) ==
    IF y < 10 THEN <<Digits[y + 1]>>
    ELSE to_string(y \div 10) \o <<Digits[(y % 10) + 1]>>

\* A join that also puts the separator after the last part.
RECURSIVE Join_trailing(_, _)
Join_trailing(parts, sep) ==
    IF parts = <<>> THEN <<>>
    ELSE parts[1] \o <<sep>> \o Join_trailing(Tail(parts), sep)

\* [String]::join(sep).
RECURSIVE Join(_, _)
Join(parts, sep) ==
    IF parts = <<>> THEN <<>>
    ELSE IF Len(parts) = 1 THEN parts[1]
    ELSE parts[1] \o <<sep>> \o Join(Tail(parts), sep)

(***************************************************************************)
(* MatrixCodec                                                             *)
(***************************************************************************)

\* An inner loop that pushes a placeholder 0 for an element that fails.
RECURSIVE RowVec_placeholder(_, _, _)
RowVec_placeholder(elems, j, row_vec) ==
    IF j > Len(elems) THEN row_vec
    ELSE LET r == ParseU32(Trim(elems[j]))
         IN  RowVec_placeholder(elems, j + 1,
                                Append(row_vec, IF r.ok THEN r.num ELSE 0))

\* The inner loop of str_to_fractal_def (main.rs:183-188): the elements of
\* one row, pushed in order; an element that fails to parse pushes nothing.
RECURSIVE RowVec(_, _, _)
RowVec(elems, j, row_vec) ==
    IF j > Len(elems) THEN row_vec
    ELSE LET r == ParseU32(Trim(elems[j]))
         IN  RowVec(elems, j + 1,
                    IF r.ok THEN Append(row_vec, r.num) ELSE row_vec)

DecodeRow(row) == RowVec(Split(row, FRACTAL_DEF_ELEMNET_SEPARATOR), 1, <<>>)

\* An outer loop that pushes only the rows that hold an element.
RECURSIVE FractalDefVec_skip_empty(_, _, _)
FractalDefVec_skip_empty(rows, i, fractal_def_vec) ==
    IF i > Len(rows) THEN fractal_def_vec
    ELSE FractalDefVec_skip_empty(
             rows, i + 1,
             IF DecodeRow(rows[i]) = <<>> THEN fractal_def_vec
             ELSE Append(fractal_def_vec, DecodeRow(rows[i])))

\* The outer loop (main.rs:179-190): one row_vec pushed per piece.
RECURSIVE FractalDefVec(_, _, _)
FractalDefVec(rows, i, fractal_def_vec) ==
    IF i > Len(rows) THEN fractal_def_vec
    ELSE FractalDefVec(rows, i + 1,
                       Append(fractal_def_vec, DecodeRow(rows[i])))

str_to_fractal_def(fractal_def_input) ==
    FractalDefVec(Split(fractal_def_input, FRACTAL_DEF_ROW_SEPARATOR), 1, <<>>)

EncodeRow(x) ==
    Join([k \in 1..Len(x) |-> to_string(x[k])], FRACTAL_DEF_ELEMNET_SEPARATOR)

build_fractal_def_str(value) ==
    Join([k \in 1..Len(value) |-> EncodeRow(value[k])], FRACTAL_DEF_ROW_SEPARATOR)

(***************************************************************************)
(* f32 as exact rationals, Vec3 as a triple of them                        *)
(***************************************************************************)

RECURSIVE GCD(_, _)
GCD(a, b) == IF b = 0 THEN a ELSE GCD(b, a % b)

\* num/den in lowest terms; den = 0 is the non-finite result of a division
\* by zero (f32 division does not trap).
Rat(n, d) ==
    IF d = 0 THEN [num |-> n, den |-> 0]
    ELSE LET g == GCD(n, d) IN [num |-> n \div g, den |-> d \div g]

RDiv(r, k) == IF k = 0 THEN [num |-> r.num, den |-> 0] ELSE Rat(r.num, r.den * k)

RMul(k, r) == Rat(k * r.num, r.den)

RAdd(a, b) ==
    LET l == (a.den \div GCD(a.den, b.den)) * b.den
    IN  Rat(a.num * (l \div a.den) + b.num * (l \div b.den), l)

Vec3(px, py, pz) == <<px, py, pz>>

VAdd(p, q) == <<RAdd(p[1], q[1]), RAdd(p[2], q[2]), RAdd(p[3], q[3])>>

Origin == Vec3(Rat(0, 1), Rat(0, 1), Rat(0, 1))

(***************************************************************************)
(* FractalExpander                                                         *)
(***************************************************************************)

\* main.rs:20.
FRACTAL_DEF == <<<<2, 3, 0, 1>>, <<1, 2, 3, 0>>, <<0, 1, 2, 3>>, <<3, 0, 1, 2>>>>

\* A cube spawned with the default Transform, its position forgotten.
spawn_cube_at_origin(scale, position) ==
    [kind |-> "Shape", scale |-> scale, position |-> Origin]

\* spawn_cube (main.rs:51-63): the entity it spawns, a cube of edge `scale`
\* translated to `position` and marked Shape.
spawn_cube(scale, position) ==
    [kind |-> "Shape", scale |-> scale, position |-> position]

\* main.rs:76.
NewScale(scale, fractal_def) == RDiv(scale, Len(fractal_def))

\* An outer loop that stops one row early.
RowCount_short(fractal_def) == Len(fractal_def) - 1

\* The bounds of the two loops (main.rs:77-78); i and j count from 0.
RowCount(fractal_def) == Len(fractal_def)

RowLen(fractal_def, i) == Len(fractal_def[i + 1])

\* The offsets of the two grid axes exchanged.
ChildPosition_swapped(position, new_scale, i, j, fractal_def) ==
    VAdd(position,
         Vec3(RMul(j, new_scale), RMul(i, new_scale),
              RMul(fractal_def[i + 1][j + 1], new_scale)))

\* The position handed to the recursive call (main.rs:83-88).
ChildPosition(position, new_scale, i, j, fractal_def) ==
    VAdd(position,
         Vec3(RMul(i, new_scale), RMul(j, new_scale),
              RMul(fractal_def[i + 1][j + 1], new_scale)))

\* spawn_fractal_recursive (main.rs:65-95) as a function: the cubes it
\* spawns, in the order of the spawn commands.
RECURSIVE spawn_fractal_recursive(_, _, _, _)
RECURSIVE LoopI(_, _, _, _, _)
RECURSIVE LoopJ(_, _, _, _, _, _)
LoopJ(new_scale, position, n, fractal_def, i, j) ==
    IF j >= RowLen(fractal_def, i) THEN <<>>
    ELSE spawn_fractal_recursive(
             new_scale, ChildPosition(position, new_scale, i, j, fractal_def),
             n - 1, fractal_def)
         \o LoopJ(new_scale, position, n, fractal_def, i, j + 1)

LoopI(new_scale, position, n, fractal_def, i) ==
    IF i >= RowCount(fractal_def) THEN <<>>
    ELSE LoopJ(new_scale, position, n, fractal_def, i, 0)
         \o LoopI(new_scale, position, n, fractal_def, i + 1)

spawn_fractal_recursive(scale, position, n, fractal_def) ==
    IF n = 0 THEN <<spawn_cube(scale, position)>>
    ELSE LoopI(NewScale(scale, fractal_def), position, n, fractal_def, 0)

(***************************************************************************)
(* Bounds of the model and the inputs it draws                             *)
(***************************************************************************)

\* A call of the expander is followed until it has spawned MaxSpawn cubes.
MaxSpawn == 30
\* A frame is taken only if its expansion has at most MaxShapes leaves.
MaxShapes == 64
\* The texts given to the decoder: every text of at most MaxTextLen characters.
MaxTextLen == 4
\* The matrices given to the encoder: at most MaxRows rows of at most MaxRowLen.
MaxRows == 2
MaxRowLen == 2

\* The range of the depth slider, main.rs:143.
SliderMax == 8

\* The ceiling of the pre-flight check the specification asks for (its
\* section 5 gives 10^5 to 10^6); main.rs has no such number.
ExpansionCeiling == 1000000

VARIABLES
    depth,              \* FractalDepth.depth
    value,              \* FractalDef.value
    fractal_def_input,  \* the text of the edit box when the frame decoded it
    world,              \* the entities alive, in spawn order
    queue,              \* Commands queued by the running system
    phase,              \* "startup", "update", "apply" ("off": no app)
    arg_scale, arg_position, arg_n, arg_def,  \* one top-level call's arguments
    stack,              \* its call stack, the active call last
    spawned,            \* the cubes it has spawned so far, in order
    xpc,                \* "ready", "running", "returned" ("off": no call)
    c_matrix,           \* codec: the matrix encoded
    c_text,             \* codec: the text built or given
    c_decoded,          \* codec: the matrix decoded from c_text
    cpc                 \* "matrix", "encoded", "roundtrip", "text", "decoded"

appVars == <<depth, value, fractal_def_input, world, queue, phase>>
callVars == <<arg_scale, arg_position, arg_n, arg_def, stack, spawned, xpc>>
codecVars == <<c_matrix, c_text, c_decoded, cpc>>
vars == <<appVars, callVars, codecVars>>

NoApp ==
    /\ depth = 0 /\ value = FRACTAL_DEF /\ fractal_def_input = <<>>
    /\ world = <<>> /\ queue = <<>> /\ phase = "off"

NoCall ==
    /\ arg_scale = Rat(4, 1) /\ arg_position = Origin /\ arg_n = 0
    /\ arg_def = FRACTAL_DEF /\ stack = <<>> /\ spawned = <<>> /\ xpc = "off"

NoCodec ==
    /\ c_matrix = <<>> /\ c_text = <<>> /\ c_decoded = <<>> /\ cpc = "off"

(***************************************************************************)
(* One call of spawn_fractal_recursive, step by step                       *)
(***************************************************************************)

Big10 == [i \in 1..10 |-> [j \in 1..10 |-> (i + j) % 10]]

ExpandDefs ==
    { FRACTAL_DEF,
      <<<<0, 1>>, <<1, 0>>>>,
      <<<<1>>, <<0, 2>>>>,
      <<<<>>, <<3>>>>,
      <<<<0, 0>>>>,
      <<<<5>>>>,
      << <<>> >>,
      <<>>,
      Big10 }

ExpandScales == {Rat(4, 1), Rat(1, 1)}

ExpandPositions == {Origin, Vec3(Rat(1, 1), Rat(2, 1), Rat(3, 1))}

\* A call just entered: its parameters (main.rs:68-70).
Frame(scale, position, n) ==
    [at |-> "entry", scale |-> scale, position |-> position, n |-> n]

Top == stack[Len(stack)]

\* The active call returns: its caller goes on to the next j (main.rs:78).
Pop(stk) ==
    LET rest == SubSeq(stk, 1, Len(stk) - 1)
    IN  IF rest = <<>> THEN rest
        ELSE [rest EXCEPT ![Len(rest)].j = @ + 1]

ReturnToCaller ==
    /\ stack' = Pop(stack)
    /\ xpc' = IF Len(stack) = 1 THEN "returned" ELSE "running"

Call ==
    /\ xpc = "ready"
    /\ stack' = <<Frame(arg_scale, arg_position, arg_n)>>
    /\ xpc' = "running"
    /\ UNCHANGED <<arg_scale, arg_position, arg_n, arg_def, spawned>>
    /\ UNCHANGED <<appVars, codecVars>>

\* main.rs:73-74.
SpawnCube ==
    /\ xpc = "running"
    /\ Top.at = "entry"
    /\ Top.n = 0
    /\ Len(spawned) < MaxSpawn
    /\ spawned' = Append(spawned, spawn_cube(Top.scale, Top.position))
    /\ ReturnToCaller
    /\ UNCHANGED <<arg_scale, arg_position, arg_n, arg_def>>
    /\ UNCHANGED <<appVars, codecVars>>

\* main.rs:75-77: new_scale is computed, the loops start at i = 0, j = 0.
Subdivide ==
    /\ xpc = "running"
    /\ Top.at = "entry"
    /\ Top.n # 0
    /\ stack' = [stack EXCEPT ![Len(stack)] =
                   [at |-> "loop", scale |-> Top.scale, position |-> Top.position,
                    n |-> Top.n, new_scale |-> NewScale(Top.scale, arg_def),
                    i |-> 0, j |-> 0]]
    /\ UNCHANGED <<arg_scale, arg_position, arg_n, arg_def, spawned, xpc>>
    /\ UNCHANGED <<appVars, codecVars>>

\* main.rs:78-91: one iteration of the inner loop makes the recursive call.
Recurse ==
    /\ xpc = "running"
    /\ Top.at = "loop"
    /\ Top.i < RowCount(arg_def)
    /\ Top.j < RowLen(arg_def, Top.i)
    /\ stack' = Append(stack,
                       Frame(Top.new_scale,
                             ChildPosition(Top.position, Top.new_scale,
                                           Top.i, Top.j, arg_def),
                             Top.n - 1))
    /\ UNCHANGED <<arg_scale, arg_position, arg_n, arg_def, spawned, xpc>>
    /\ UNCHANGED <<appVars, codecVars>>

\* main.rs:77-78: the inner loop is over, the outer loop takes the next row.
NextRow ==
    /\ xpc = "running"
    /\ Top.at = "loop"
    /\ Top.i < RowCount(arg_def)
    /\ Top.j >= RowLen(arg_def, Top.i)
    /\ stack' = [stack EXCEPT ![Len(stack)].i = @ + 1, ![Len(stack)].j = 0]
    /\ UNCHANGED <<arg_scale, arg_position, arg_n, arg_def, spawned, xpc>>
    /\ UNCHANGED <<appVars, codecVars>>

\* main.rs:93-95: the outer loop is over, the call returns ().
Return ==
    /\ xpc = "running"
    /\ Top.at = "loop"
    /\ Top.i >= RowCount(arg_def)
    /\ ReturnToCaller
    /\ UNCHANGED <<arg_scale, arg_position, arg_n, arg_def, spawned>>
    /\ UNCHANGED <<appVars, codecVars>>

InitExpand ==
    /\ arg_scale \in ExpandScales
    /\ arg_position \in ExpandPositions
    /\ arg_n \in 0..SliderMax
    /\ arg_def \in ExpandDefs
    /\ stack = <<>> /\ spawned = <<>> /\ xpc = "ready"
    /\ NoApp /\ NoCodec

NextExpand == Call \/ SpawnCube \/ Subdivide \/ Recurse \/ NextRow \/ Return

SpecExpand == InitExpand /\ [][NextExpand]_vars

\* The step-by-step call and the function spawn the same cubes.
MachineAgreesWithFunction ==
    xpc = "returned" =>
        spawned = spawn_fractal_recursive(arg_scale, arg_position, arg_n, arg_def)
(***************************************************************************)
(* The leaves of an expansion, stated without the recursion                *)
(***************************************************************************)

Min(a, b) == IF a < b THEN a ELSE b

\* The number of elements in the first i rows.
RECURSIVE PrefixLen(_, _)
PrefixLen(def, i) == IF i = 0 THEN 0 ELSE PrefixLen(def, i - 1) + Len(def[i])

\* B: the sum of the lengths of all rows.
BranchingFactor(def) == PrefixLen(def, Len(def))

\* b^d, saturating just above cap.
RECURSIVE SatPow(_, _, _)
SatPow(b, d, cap) ==
    IF d = 0 THEN 1 ELSE Min(SatPow(b, d - 1, cap) * b, cap + 1)

\* The leaf count computable from the row lengths and the depth alone, as
\* far as it is needed to compare it with cap.
ProjectedLeaves(def, n, cap) == SatPow(BranchingFactor(def), n, cap)

IsSquare(def) == \A i \in 1..Len(def) : Len(def[i]) = Len(def)

\* The r-th (from 0) element of the matrix in row-major order: its row and
\* its column, both from 0.
BranchRow(def, r) ==
    CHOOSE i \in 0..(Len(def) - 1) :
        PrefixLen(def, i) <= r /\ r < PrefixLen(def, i + 1)

BranchCol(def, r) == r - PrefixLen(def, BranchRow(def, r))

\* The d digits of k in base b, the most significant first: the index path
\* (i1, j1), ..., (id, jd) of the k-th leaf in lexicographic order, each
\* pair given by its row-major number.
RECURSIVE PathDigits(_, _, _)
PathDigits(b, k, d) ==
    IF d = 0 THEN <<>> ELSE Append(PathDigits(b, k \div b, d - 1), k % b)

RECURSIVE IntPow(_, _)
IntPow(b, d) == IF d = 0 THEN 1 ELSE b * IntPow(b, d - 1)

\* The sum over the levels 1..l of (i, j, def[i][j]) * scale / N^level.
RECURSIVE SumOffsets(_, _, _, _)
SumOffsets(scale, def, path, l) ==
    IF l = 0 THEN Origin
    ELSE LET step == Rat(scale.num, scale.den * IntPow(Len(def), l))
             i == BranchRow(def, path[l])
             j == BranchCol(def, path[l])
         IN  VAdd(SumOffsets(scale, def, path, l - 1),
                  Vec3(RMul(i, step), RMul(j, step),
                       RMul(def[i + 1][j + 1], step)))

\* The k-th (from 0) leaf in lexicographic order of the index path.
LeafOfRank(scale, position, n, def, k) ==
    LET path == PathDigits(BranchingFactor(def), k, n)
    IN  [kind |-> "Shape",
         scale |-> Rat(scale.num, scale.den * IntPow(Len(def), n)),
         position |-> VAdd(position, SumOffsets(scale, def, path, n))]

(***************************************************************************)
(* Claims about one call of the expander (SpecExpand)                      *)
(***************************************************************************)

\* C1: a top-level call on a matrix with at least one row, once it has
\* returned, has spawned exactly B^D leaves, B the sum of the row lengths
\* and D the depth; for a square matrix of N rows that is (N*N)^D.
C1_GrowthLaw ==
    (xpc = "returned" /\ Len(arg_def) >= 1) =>
        /\ Len(spawned) = ProjectedLeaves(arg_def, arg_n, MaxSpawn)
        /\ IsSquare(arg_def) =>
               Len(spawned) = SatPow(Len(arg_def) * Len(arg_def), arg_n, MaxSpawn)

\* A jagged matrix with B = 3 expanded to depth 3 has returned 27 leaves.
C1_Witness ==
    /\ xpc = "returned"
    /\ arg_def = <<<<1>>, <<0, 2>>>>
    /\ arg_n = 3
    /\ Len(spawned) = 27

\* C2: with depth 0 and a matrix of at least one row the call spawns exactly
\* one leaf, of the base scale at the base position.
C2_BaseCase ==
    (xpc = "returned" /\ arg_n = 0 /\ Len(arg_def) >= 1) =>
        spawned = <<[kind |-> "Shape", scale |-> arg_scale,
                     position |-> arg_position]>>

\* A depth-0 call with a base position other than the origin has returned.
C2_Witness ==
    /\ xpc = "returned"
    /\ arg_n = 0
    /\ Len(arg_def) >= 1
    /\ arg_position # Origin
    /\ Len(spawned) = 1

\* C5 (as claimed): a call whose projected leaf count exceeds the ceiling
\* makes no recursive call, spawns nothing and does not return normally.
C5_GuardRejectsTooLarge ==
    ProjectedLeaves(arg_def, arg_n, ExpansionCeiling) > ExpansionCeiling =>
        /\ Len(stack) <= 1
        /\ spawned = <<>>
        /\ xpc # "returned"

\* C6 (as claimed): a call on a matrix without rows at depth >= 1 never
\* divides the scale by zero, spawns nothing and does not return normally.
C6_EmptyMatrixFailsFast ==
    (Len(arg_def) = 0 /\ arg_n >= 1) =>
        /\ \A k \in 1..Len(stack) :
               stack[k].at = "loop" => stack[k].new_scale.den # 0
        /\ spawned = <<>>
        /\ xpc # "returned"

\* C8: at every moment of a call the leaves spawned so far are, in order,
\* the first leaves in increasing lexicographic order of the index path
\* (i1, j1, ..., iD, jD); the sequence is a function of the arguments alone.
C8_EmissionOrder ==
    \A k \in 1..Len(spawned) :
        spawned[k] = LeafOfRank(arg_scale, arg_position, arg_n, arg_def, k - 1)

\* A jagged matrix at depth 2: the fourth leaf is the child (0,0) of (1,0).
C8_Witness ==
    /\ xpc = "returned"
    /\ arg_def = <<<<1>>, <<0, 2>>>>
    /\ arg_n = 2
    /\ arg_scale = Rat(4, 1)
    /\ arg_position = Origin
    /\ Len(spawned) = 9
    /\ spawned[4] = [kind |-> "Shape", scale |-> Rat(1, 1),
                     position |-> Vec3(Rat(2, 1), Rat(0, 1), Rat(1, 1))]
(***************************************************************************)
(* The codec applied to drawn inputs (SpecCodec)                           *)
(***************************************************************************)

SeqsUpTo(S, n) == UNION {[1..m -> S] : m \in 0..n}

Alphabet == {"0", "1", ",", "|", " ", "x", "+"}

\* "1,x,2|3,,4"
LenientExample == <<"1", ",", "x", ",", "2", "|", "3", ",", ",", "4">>

ExampleTexts ==
    { LenientExample,
      \* "4294967296, +7 ,-1,+|x, ,"
      <<"4", "2", "9", "4", "9", "6", "7", "2", "9", "6", ",", " ", "+", "7",
        " ", ",", "-", "1", ",", "+", "|", "x", ",", " ", ",">>,
      \* "2147483647,0000000000012|99999999999"
      <<"2", "1", "4", "7", "4", "8", "3", "6", "4", "7", ",", "0", "0", "0",
        "0", "0", "0", "0", "0", "0", "0", "0", "1", "2", "|", "9", "9", "9",
        "9", "9", "9", "9", "9", "9", "9", "9">>,
      \* "1 2, 3 |+ 4,++5"
      <<"1", " ", "2", ",", " ", "3", " ", "|", "+", " ", "4", ",", "+", "+",
        "5">> }

CodecTexts == SeqsUpTo(Alphabet, MaxTextLen) \cup ExampleTexts

CodecValues == {0, 10, 2147483647}

CodecMatrices == SeqsUpTo(SeqsUpTo(CodecValues, MaxRowLen), MaxRows)

\* build_fractal_def_str on the drawn matrix.
Encode ==
    /\ cpc = "matrix"
    /\ c_text' = build_fractal_def_str(c_matrix)
    /\ cpc' = "encoded"
    /\ UNCHANGED <<c_matrix, c_decoded>>
    /\ UNCHANGED <<appVars, callVars>>

\* str_to_fractal_def on the text, built or drawn.
Decode ==
    /\ cpc \in {"encoded", "text"}
    /\ c_decoded' = str_to_fractal_def(c_text)
    /\ cpc' = IF cpc = "encoded" THEN "roundtrip" ELSE "decoded"
    /\ UNCHANGED <<c_matrix, c_text>>
    /\ UNCHANGED <<appVars, callVars>>

InitCodec ==
    /\ \/ cpc = "matrix" /\ c_matrix \in CodecMatrices /\ c_text = <<>>
       \/ cpc = "text" /\ c_matrix = <<>> /\ c_text \in CodecTexts
    /\ c_decoded = <<>>
    /\ NoApp /\ NoCall

NextCodec == Encode \/ Decode

SpecCodec == InitCodec /\ [][NextCodec]_vars

(***************************************************************************)
(* The decoded matrix, stated on the positions of the separators           *)
(***************************************************************************)

SepCount(s, sep) == Cardinality({k \in 1..Len(s) : s[k] = sep})

\* The position of the m-th separator; 0 and Len(s) + 1 close the text.
NthCut(s, sep, m) ==
    IF m = 0 THEN 0
    ELSE IF m > SepCount(s, sep) THEN Len(s) + 1
    ELSE CHOOSE k \in 1..Len(s) :
             s[k] = sep /\ Cardinality({q \in 1..k : s[q] = sep}) = m

Pieces(s, sep) ==
    [m \in 1..(SepCount(s, sep) + 1) |->
        SubSeq(s, NthCut(s, sep, m - 1) + 1, NthCut(s, sep, m) - 1)]

\* The token from its first to its last character that is no whitespace.
Stripped(t) ==
    LET ns == {k \in 1..Len(t) : ~IsWhitespace(t[k])}
    IN  IF ns = {} THEN <<>>
        ELSE SubSeq(t, CHOOSE a \in ns : \A k \in ns : a <= k,
                       CHOOSE b \in ns : \A k \in ns : k <= b)

Unsigned(t) == IF t # <<>> /\ t[1] = "+" THEN Tail(t) ELSE t

\* The digits from the first that is not "0".
Significant(t) ==
    LET nz == {k \in 1..Len(t) : t[k] # "0"}
    IN  IF nz = {} THEN <<>>
        ELSE SubSeq(t, CHOOSE a \in nz : \A k \in nz : a <= k, Len(t))

U32MaxDigits == <<4, 2, 9, 4, 9, 6, 7, 2, 9, 5>>

\* A run of significant digits that writes a number of at most u32::MAX.
FitsU32(sig) ==
    \/ Len(sig) < Len(U32MaxDigits)
    \/ /\ Len(sig) = Len(U32MaxDigits)
       /\ \/ \A k \in 1..Len(sig) : DigitVal(sig[k]) = U32MaxDigits[k]
          \/ \E k \in 1..Len(sig) :
                /\ DigitVal(sig[k]) < U32MaxDigits[k]
                /\ \A q \in 1..(k - 1) : DigitVal(sig[q]) = U32MaxDigits[q]

\* The token writes a non-negative integer a u32 holds: an optional "+",
\* then one digit or more.
IsU32Text(t) ==
    /\ Unsigned(t) # <<>>
    /\ \A k \in 1..Len(Unsigned(t)) : IsDigit(Unsigned(t)[k])
    /\ FitsU32(Significant(Unsigned(t)))

RECURSIVE DecimalValue(_, _)
DecimalValue(sig, k) ==
    IF k = 0 THEN 0 ELSE DecimalValue(sig, k - 1) * 10 + DigitVal(sig[k])

U32Value(t) ==
    LET sig == Significant(Unsigned(t)) IN DecimalValue(sig, Len(sig))

LenientRow(segment) ==
    LET toks == Pieces(segment, ",")
        kept == SelectSeq([k \in 1..Len(toks) |-> Stripped(toks[k])], IsU32Text)
    IN  [k \in 1..Len(kept) |-> U32Value(kept[k])]

LenientRows(text) ==
    LET segs == Pieces(text, "|") IN [m \in 1..Len(segs) |-> LenientRow(segs[m])]

(***************************************************************************)
(* Claims about the codec (SpecCodec)                                      *)
(***************************************************************************)

\* C3: a matrix with at least one row (rows jagged or empty) is given back
\* unchanged by decoding the text encoded from it.
C3_RoundTrip ==
    (cpc = "roundtrip" /\ Len(c_matrix) >= 1) => c_decoded = c_matrix

\* A jagged matrix with an empty row and a ten-digit value has made the trip.
C3_Witness ==
    /\ cpc = "roundtrip"
    /\ c_matrix = <<<<10, 2147483647>>, <<>>>>
    /\ c_text = <<"1", "0", ",", "2", "1", "4", "7", "4", "8", "3", "6", "4",
                  "7", "|">>
    /\ c_decoded = c_matrix

\* C4: the decoded matrix has one row per "|"-separated segment, and each
\* row holds, in order, the values of the segment's ","-separated tokens
\* that, once trimmed, parse as a non-negative integer (a u32); the other
\* tokens leave nothing.  "1,x,2|3,,4" gives [1,2] and [3,4].
C4_LenientDecoding ==
    cpc = "decoded" =>
        /\ c_decoded = LenientRows(c_text)
        /\ Len(c_decoded) = SepCount(c_text, "|") + 1
        /\ c_text = LenientExample => c_decoded = <<<<1, 2>>, <<3, 4>>>>

\* The example text has been decoded.
C4_Witness ==
    /\ cpc = "decoded"
    /\ c_text = LenientExample
    /\ c_decoded = <<<<1, 2>>, <<3, 4>>>>
(***************************************************************************)
(* The app: setup at startup, ui_fractal_depth every frame (Spec)          *)
(***************************************************************************)

\* The entities setup spawns besides the cubes (main.rs:103-122).
Camera ==
    [kind |-> "Camera", position |-> Vec3(Rat(0, 1), Rat(5, 1), Rat(0, 1))]

Light ==
    [kind |-> "PointLight",
     position |-> Vec3(Rat(8, 1), Rat(16, 1), Rat(8, 1))]

\* commands.spawn(bundle) for each bundle, in order.
SpawnCommands(bundles) ==
    [k \in 1..Len(bundles) |-> [op |-> "spawn", bundle |-> bundles[k]]]

IsShape(e) == e.kind = "Shape"

\* A frame that clears nothing.
DespawnShapes_none(w) == <<>>

\* main.rs:159-161: a despawn command for every entity With<Shape>.  An
\* entity is named by its place in `world` when the system runs.
DespawnShapes(w) ==
    LET shapes == {k \in 1..Len(w) : IsShape(w[k])}
    IN  [k \in 1..Cardinality(shapes) |->
            [op |-> "despawn",
             entity |-> CHOOSE e \in shapes :
                            Cardinality({f \in shapes : f <= e}) = k]]

\* The entities of w from place k on that are not in `gone`.
RECURSIVE Remaining(_, _, _)
Remaining(w, k, gone) ==
    IF k > Len(w) THEN <<>>
    ELSE (IF k \in gone THEN <<>> ELSE <<w[k]>>) \o Remaining(w, k + 1, gone)

\* The queue applied when the system has run: the despawned entities leave
\* the world, the spawned ones join it in the order of their commands.
ApplyAll(w, q) ==
    LET gone == {q[k].entity : k \in {m \in 1..Len(q) : q[m].op = "despawn"}}
        spawns == SelectSeq(q, LAMBDA c : c.op = "spawn")
    IN  Remaining(w, 1, gone) \o [k \in 1..Len(spawns) |-> spawns[k].bundle]

\* Texts the user leaves in the edit box: "", "|", ",|,", " ", "x", "0,0",
\* "0,1|1,0", "1|0,2" and "1,x,2|3,,4".
EditTexts ==
    { <<>>,
      <<"|">>,
      <<",", "|", ",">>,
      <<" ">>,
      <<"x">>,
      <<"0", ",", "0">>,
      <<"0", ",", "1", "|", "1", ",", "0">>,
      <<"1", "|", "0", ",", "2">>,
      LenientExample }

\* main.rs:97-132.
setup ==
    /\ phase = "startup"
    /\ queue' = SpawnCommands(
                    <<Camera, Light>>
                    \o spawn_fractal_recursive(Rat(Len(value), 1), Origin,
                                               depth, value))
    /\ phase' = "apply"
    /\ UNCHANGED <<depth, value, fractal_def_input, world>>
    /\ UNCHANGED <<callVars, codecVars>>

\* main.rs:134-172.  The closure of the window (main.rs:142-154) runs when
\* the window is shown: the slider sets the depth, the edit box starts from
\* the encoded matrix and holds `edit` when it is decoded.  A collapsed
\* window runs no closure.  The scene is rebuilt in both cases.
ui_fractal_depth ==
    /\ phase = "update"
    /\ \E shown \in BOOLEAN, slider \in 0..SliderMax,
          edit \in {build_fractal_def_str(value)} \cup EditTexts :
          LET new_depth == IF shown THEN slider ELSE depth
              new_value == IF shown THEN str_to_fractal_def(edit) ELSE value
          IN  /\ ProjectedLeaves(new_value, new_depth, MaxShapes) <= MaxShapes
              /\ depth' = new_depth
              /\ value' = new_value
              /\ fractal_def_input' = IF shown THEN edit ELSE fractal_def_input
              /\ queue' = DespawnShapes(world)
                          \o SpawnCommands(
                                 spawn_fractal_recursive(Rat(4, 1), Origin,
                                                         new_depth, new_value))
    /\ phase' = "apply"
    /\ UNCHANGED world
    /\ UNCHANGED <<callVars, codecVars>>

\* The commands of the system that ran are applied before the next one runs.
apply_deferred ==
    /\ phase = "apply"
    /\ world' = ApplyAll(world, queue)
    /\ queue' = <<>>
    /\ phase' = "update"
    /\ UNCHANGED <<depth, value, fractal_def_input>>
    /\ UNCHANGED <<callVars, codecVars>>

\* main.rs:42-45.
Init ==
    /\ depth = 0
    /\ value = FRACTAL_DEF
    /\ fractal_def_input = <<>>
    /\ world = <<>>
    /\ queue = <<>>
    /\ phase = "startup"
    /\ NoCall /\ NoCodec

Next == setup \/ ui_fractal_depth \/ apply_deferred

Spec == Init /\ [][Next]_vars

(***************************************************************************)
(* Claims about the app (Spec)                                             *)
(***************************************************************************)

LiveShapes ==
    SelectSeq(world, IsShape)

\* C7: the matrix in FractalDef.value always has at least one row, whatever
\* texts and depths the frames were given.
C7_AtLeastOneRow == Len(value) >= 1

\* The empty text has been decoded: the matrix is one empty row.
C7_Witness ==
    /\ phase = "update"
    /\ fractal_def_input = <<>>
    /\ value = << <<>> >>

\* C9 (as claimed): a frame that decodes the empty text leaves the matrix
\* as it was; a frame that decodes another text replaces the matrix by the
\* decoded text.
C9_RejectedEditKeepsPrior ==
    [][(phase = "update" /\ phase' = "apply") =>
          IF fractal_def_input' = <<>>
          THEN value' = value
          ELSE value' = str_to_fractal_def(fractal_def_input')]_vars

\* C10: once the commands of startup or of a frame are applied, the live
\* Shapes are exactly the leaves of one expansion of the current matrix and
\* depth, B^D of them: nothing is left of the frame before.
C10_SceneRebuilt ==
    phase = "update" =>
        /\ Len(LiveShapes) = ProjectedLeaves(value, depth, MaxShapes)
        /\ \A k \in 1..Len(LiveShapes) :
               LiveShapes[k] = LeafOfRank(Rat(4, 1), Origin, depth, value, k - 1)

\* A 2x2 matrix typed into the box at depth 2: 16 Shapes, and the one that
\* setup spawned is gone.
C10_Witness ==
    /\ phase = "update"
    /\ fractal_def_input = <<"0", ",", "1", "|", "1", ",", "0">>
    /\ depth = 2
    /\ Len(LiveShapes) = 16
    /\ Len(world) = 18
=============================================================================
